---- MODULE Spec2Model ----
(***************************************************************************)
(* The concurrent maps GoMap, GoMap1Chan and SyncMap, and ConcurrentSlice. *)
(*                                                                         *)
(* Channels are unbuffered: a send and a receive happen together, in one   *)
(* step, when both sides are at the channel.  A goroutine blocked in a     *)
(* send is a caller whose pc is "send"; the worker blocked in its select   *)
(* (or range) is wpc = "select".  A panic aborts the whole process: once   *)
(* crashed # "none" no goroutine takes a step.                             *)
(***************************************************************************)
EXTENDS Integers, Sequences, FiniteSets, TLC

\* ------------------------------------------------------------------ bounds
MaxOps == 3
MaxStops == 2
MaxCalls == 3

Callers == {"A", "B"}
Keys == {"7", "999"}
Values == {"v1", "v2"}
Nil == "nil"
Variants == {"GoMap", "GoMap1Chan", "SyncMap"}
Users == {"U1", "U2"}
SliceVariants == {"checked", "unchecked"}
Indexes == (0 - 1)..(MaxCalls - 1)

VARIABLES
    variant,    \* which Map implementation the harness was given
    m,          \* the map[string]interface{}: a function on the keys present
    pc,         \* per caller goroutine: where it is
    req,        \* per caller: the request of the call in progress
    res,        \* per caller: what its last call returned, once it has
    wpc,        \* the worker goroutine (run): where it is
    wreq,       \* the request the worker has received and not yet processed
    closed,     \* the channels that have been closed
    spc,        \* the goroutine calling Stop: where it is
    stops,      \* number of Stop calls made
    crashed,    \* "none", or the message of the panic that aborted the process
    rwReaders,  \* SyncMap.lock: the callers holding the read lock
    rwWriter,   \* SyncMap.lock: the caller that holds or has claimed the write lock
    nops,       \* number of Get/Set calls made so far
    joined,     \* TestInParallel has returned: every caller goroutine has finished
    h           \* history of the calls (read by the properties, never by the code)

VARIABLES
    csVariant,  \* which ConcurrentSlice: Get with the isset check, or without
    items,      \* cs.items
    csReaders,  \* cs.RWMutex: the goroutines holding the read lock
    csWriter,   \* cs.RWMutex: the goroutine that holds or has claimed the write lock
    upc,        \* per user goroutine: where it is
    ucall,      \* per user: the call in progress
    ures,       \* per user: what its last Get returned, once it has
    iter,       \* the Iter passes, in the order of the Iter calls
    ncalls,     \* number of Append, Get and Iter calls made so far
    cspanic     \* "none", or the message of the panic that aborted the process

svars == <<csVariant, items, csReaders, csWriter, upc, ucall, ures, iter,
           ncalls, cspanic>>

mvars == <<variant, m, pc, req, res, wpc, wreq, closed, spc, stops, crashed,
           rwReaders, rwWriter, nops, joined, h>>

vars == <<mvars, svars>>

\* ------------------------------------------------------------- data types
mapResult(value, ok) == [value |-> value, ok |-> ok]

mapGet(key, out) == [type |-> "mapGet", key |-> key, out |-> out]

mapSet(key, value) == [type |-> "mapSet", key |-> key, value |-> value]

NoReq == [type |-> "none"]

NoRes == [type |-> "none"]

\* a lookup that reports every key as present
Lookup_alwaysOk(mm, key) ==
    mapResult(IF key \in DOMAIN mm THEN mm[key] ELSE Nil, TRUE)

\* value, ok := m[key]
Lookup(mm, key) ==
    IF key \in DOMAIN mm THEN mapResult(mm[key], TRUE) ELSE mapResult(Nil, FALSE)

\* a store that keeps the value a key already has
Store_ifAbsent(mm, key, value) ==
    [k \in (DOMAIN mm) \cup {key} |-> IF k \in DOMAIN mm THEN mm[k] ELSE value]

\* m[key] = value
Store(mm, key, value) ==
    [k \in (DOMAIN mm) \cup {key} |-> IF k = key THEN value ELSE mm[k]]

\* make(map[string]interface{})
EmptyMap == [k \in {} |-> Nil]

\* return r.value, r.ok
GetReturn(r, result) ==
    [type |-> "mapGet", key |-> r.key, value |-> result.value, ok |-> result.ok]

\* Set returns nothing; the record keeps what was asked for
SetReturn(r) == [type |-> "mapSet", key |-> r.key, value |-> r.value]

\* ---------------------------------------------------------------- history
(***************************************************************************)
(* h.seq     the sequential map: every Set applied at the moment it took   *)
(*           effect (was received by the worker, or written under the      *)
(*           lock), in that order                                          *)
(* h.nrecv   number of operations that have taken effect                   *)
(* h.ndone   number of operations the worker has finished processing       *)
(* h.wr[k]   the Set calls made on key k: how many, by whom, which values  *)
(* h.mine[c][k]  the value of the last Set(k, _) of caller c that returned *)
(* h.lastSetter[k]  the caller whose Set on k took effect last             *)
(* h.op[c]   the current or last call of caller c: how many times it took  *)
(*           effect, and what held when it was made and when it took       *)
(*           effect                                                        *)
(* h.stopAt  what the first Stop call found: "quiescent" or "busy"         *)
(***************************************************************************)
\* the sequential map of the history, with its own put and get
SeqPut(sm, key, value) ==
    [k \in (DOMAIN sm) \cup {key} |-> IF k = key THEN value ELSE sm[k]]

SeqGet(sm, key) ==
    IF key \in DOMAIN sm THEN [value |-> sm[key], ok |-> TRUE]
    ELSE [value |-> Nil, ok |-> FALSE]

NoOp ==
    [effects |-> 0, late |-> FALSE, nsets |-> 0, fresh |-> FALSE,
     want |-> [value |-> Nil, ok |-> FALSE]]

HInit ==
    [seq |-> [k \in {} |-> Nil], nrecv |-> 0, ndone |-> 0,
     wr |-> [k \in Keys |-> [n |-> 0, by |-> {}, vals |-> {}]],
     mine |-> [c \in Callers |-> [k \in Keys |-> Nil]],
     lastSetter |-> [k \in Keys |-> {}],
     op |-> [c \in Callers |-> NoOp],
     stopAt |-> "never"]

\* a Set on key k has been called and has not returned
InFlightSet(k) ==
    \E c \in Callers : req[c].type = "mapSet" /\ req[c].key = k

OnCall(hh, c, r) ==
    [hh EXCEPT
       !.op[c] = [NoOp EXCEPT !.late = r.type = "mapGet" /\ ~InFlightSet(r.key),
                              !.nsets = hh.wr[r.key].n],
       !.wr[r.key] = IF r.type = "mapSet"
                     THEN [n |-> @.n + 1, by |-> @.by \cup {c},
                           vals |-> @.vals \cup {r.value}]
                     ELSE @]

OnEffect(hh, c, r) ==
    IF r.type = "mapSet"
    THEN [hh EXCEPT !.nrecv = @ + 1,
                    !.op[c].effects = @ + 1,
                    !.seq = SeqPut(@, r.key, r.value),
                    !.lastSetter[r.key] = {c}]
    ELSE [hh EXCEPT !.nrecv = @ + 1,
                    !.op[c].effects = @ + 1,
                    !.op[c].want = SeqGet(hh.seq, r.key),
                    !.op[c].fresh = hh.lastSetter[r.key] = {c}]

OnReturn(hh, c, r) ==
    IF r.type = "mapSet" THEN [hh EXCEPT !.mine[c][r.key] = r.value] ELSE hh

OnProcessed(hh) == [hh EXCEPT !.ndone = @ + 1]

\* ------------------------------------------------------------------- Init
NoCall == [op |-> "none"]

Init ==
    /\ csVariant = "none"
    /\ items = <<>>
    /\ csReaders = {}
    /\ csWriter = {}
    /\ upc = [u \in Users |-> "idle"]
    /\ ucall = [u \in Users |-> NoCall]
    /\ ures = [u \in Users |-> NoCall]
    /\ iter = <<>>
    /\ ncalls = 0
    /\ cspanic = "none"
    /\ variant \in Variants
    /\ m = EmptyMap
    /\ pc = [c \in Callers |-> "idle"]
    /\ req = [c \in Callers |-> NoReq]
    /\ res = [c \in Callers |-> NoRes]
    /\ wpc = IF variant = "SyncMap" THEN "absent" ELSE "select"
    /\ wreq = NoReq
    /\ closed = {}
    /\ spc = "idle"
    /\ stops = 0
    /\ crashed = "none"
    /\ rwReaders = {}
    /\ rwWriter = {}
    /\ nops = 0
    /\ joined = FALSE
    /\ h = HInit

Running == crashed = "none"

\* A call begins: the caller builds its request.
BeginCall(c, r, to) ==
    /\ Running
    /\ pc[c] = "idle"
    /\ ~joined
    /\ nops < MaxOps
    /\ nops' = nops + 1
    /\ pc' = [pc EXCEPT ![c] = to]
    /\ req' = [req EXCEPT ![c] = r]
    /\ res' = [res EXCEPT ![c] = NoRes]
    /\ h' = OnCall(h, c, r)

\* ------------------------------------------------------------------ GoMap
\* c := make(chan mapResult); g.get <- mapGet{key, c} begins
GoMap_Get(c, key) ==
    /\ variant = "GoMap"
    /\ BeginCall(c, mapGet(key, c), "send")
    /\ UNCHANGED <<variant, m, wpc, wreq, closed, spc, stops, crashed,
                   rwReaders, rwWriter, joined, svars>>

\* a Set that returns without handing its request to the worker
GoMap_Set_async(c, key, value) ==
    /\ variant = "GoMap"
    /\ Running
    /\ pc[c] = "idle"
    /\ ~joined
    /\ nops < MaxOps
    /\ nops' = nops + 1
    /\ res' = [res EXCEPT ![c] = SetReturn(mapSet(key, value))]
    /\ h' = OnReturn(OnCall(h, c, mapSet(key, value)), c, mapSet(key, value))
    /\ UNCHANGED <<variant, m, pc, req, wpc, wreq, closed, spc, stops, crashed,
                   rwReaders, rwWriter, joined, svars>>

\* g.set <- mapSet{key, value} begins
GoMap_Set(c, key, value) ==
    /\ variant = "GoMap"
    /\ BeginCall(c, mapSet(key, value), "send")
    /\ UNCHANGED <<variant, m, wpc, wreq, closed, spc, stops, crashed,
                   rwReaders, rwWriter, joined, svars>>

\* case r, ok := <-g.get, with a sender: the send g.get <- mapGet{key, c}
\* completes and the caller goes on to r := <-c
GoMap_run_get(c) ==
    /\ Running /\ variant = "GoMap"
    /\ wpc = "select"
    /\ pc[c] = "send" /\ req[c].type = "mapGet"
    /\ "get" \notin closed
    /\ wreq' = req[c]
    /\ wpc' = "gotGet"
    /\ pc' = [pc EXCEPT ![c] = "recv"]
    /\ h' = OnEffect(h, c, req[c])
    /\ UNCHANGED <<variant, m, req, res, closed, spc, stops, crashed,
                   rwReaders, rwWriter, nops, joined, svars>>

\* a worker that hands its reply to a caller other than the one that asked
GoMap_run_reply_crossed ==
    /\ Running /\ variant = "GoMap"
    /\ wpc = "gotGet"
    /\ pc[wreq.out] = "recv"
    /\ \E d \in Callers \ {wreq.out} :
           res' = [res EXCEPT ![d] = GetReturn(wreq, Lookup(m, wreq.key))]
    /\ pc' = [pc EXCEPT ![wreq.out] = "idle"]
    /\ req' = [req EXCEPT ![wreq.out] = NoReq]
    /\ wpc' = "select"
    /\ wreq' = NoReq
    /\ h' = OnProcessed(OnReturn(h, wreq.out, wreq))
    /\ UNCHANGED <<variant, m, closed, spc, stops, crashed, rwReaders,
                   rwWriter, nops, joined, svars>>

\* value, ok := g.m[r.key]; r.out <- mapResult{value, ok}, received by
\* r := <-c; return r.value, r.ok
GoMap_run_reply ==
    /\ Running /\ variant = "GoMap"
    /\ wpc = "gotGet"
    /\ pc[wreq.out] = "recv"
    /\ res' = [res EXCEPT ![wreq.out] = GetReturn(wreq, Lookup(m, wreq.key))]
    /\ pc' = [pc EXCEPT ![wreq.out] = "idle"]
    /\ req' = [req EXCEPT ![wreq.out] = NoReq]
    /\ wpc' = "select"
    /\ wreq' = NoReq
    /\ h' = OnProcessed(OnReturn(h, wreq.out, wreq))
    /\ UNCHANGED <<variant, m, closed, spc, stops, crashed, rwReaders,
                   rwWriter, nops, joined, svars>>

\* case r, ok := <-g.set, with a sender: g.set <- mapSet{key, value} completes
\* and Set returns
GoMap_run_set(c) ==
    /\ Running /\ variant = "GoMap"
    /\ wpc = "select"
    /\ pc[c] = "send" /\ req[c].type = "mapSet"
    /\ "set" \notin closed
    /\ wreq' = req[c]
    /\ wpc' = "gotSet"
    /\ pc' = [pc EXCEPT ![c] = "idle"]
    /\ res' = [res EXCEPT ![c] = SetReturn(req[c])]
    /\ req' = [req EXCEPT ![c] = NoReq]
    /\ h' = OnReturn(OnEffect(h, c, req[c]), c, req[c])
    /\ UNCHANGED <<variant, m, closed, spc, stops, crashed, rwReaders,
                   rwWriter, nops, joined, svars>>

\* a worker that drops the write it received
GoMap_run_store_lost ==
    /\ Running /\ variant = "GoMap"
    /\ wpc = "gotSet"
    /\ wpc' = "select"
    /\ wreq' = NoReq
    /\ h' = OnProcessed(h)
    /\ UNCHANGED <<variant, m, pc, req, res, closed, spc, stops, crashed,
                   rwReaders, rwWriter, nops, joined, svars>>

\* g.m[r.key] = r.value
GoMap_run_store ==
    /\ Running /\ variant = "GoMap"
    /\ wpc = "gotSet"
    /\ m' = Store(m, wreq.key, wreq.value)
    /\ wpc' = "select"
    /\ wreq' = NoReq
    /\ h' = OnProcessed(h)
    /\ UNCHANGED <<variant, pc, req, res, closed, spc, stops, crashed,
                   rwReaders, rwWriter, nops, joined, svars>>

\* a worker that returns without the deferred g.done <- true
GoMap_run_closed_silent ==
    /\ Running /\ variant = "GoMap"
    /\ wpc = "select"
    /\ ("get" \in closed \/ "set" \in closed)
    /\ wpc' = "exited"
    /\ UNCHANGED <<variant, m, pc, req, res, wreq, closed, spc, stops, crashed,
                   rwReaders, rwWriter, nops, joined, h, svars>>

\* a receive from a closed channel yields ok = false: return, and the deferred
\* function starts g.done <- true
GoMap_run_closed ==
    /\ Running /\ variant = "GoMap"
    /\ wpc = "select"
    /\ ("get" \in closed \/ "set" \in closed)
    /\ wpc' = "sendDone"
    /\ UNCHANGED <<variant, m, pc, req, res, wreq, closed, spc, stops,
                   crashed, rwReaders, rwWriter, nops, joined, h, svars>>

\* a send on a closed channel panics, for a sender already blocked as well
GoMap_send_closed(c) ==
    /\ Running /\ variant = "GoMap"
    /\ pc[c] = "send"
    /\ \/ req[c].type = "mapGet" /\ "get" \in closed
       \/ req[c].type = "mapSet" /\ "set" \in closed
    /\ crashed' = "send on closed channel"
    /\ UNCHANGED <<variant, m, pc, req, res, wpc, wreq, closed, spc, stops,
                   rwReaders, rwWriter, nops, joined, h, svars>>

\* Stop is called
StopCall(to) ==
    /\ Running
    /\ spc \in {"idle", "returned"}
    /\ stops < MaxStops
    /\ stops' = stops + 1
    /\ spc' = to
    /\ h' = IF stops = 0
            THEN [h EXCEPT !.stopAt = IF joined THEN "quiescent" ELSE "busy"]
            ELSE h
    /\ UNCHANGED <<variant, m, pc, req, res, wpc, wreq, closed, crashed,
                   rwReaders, rwWriter, nops, joined, svars>>

\* a close that leaves a closed channel as it is and goes on
Close_idempotent(ch, to) ==
    /\ Running
    /\ closed' = closed \cup {ch}
    /\ spc' = to
    /\ UNCHANGED <<variant, m, pc, req, res, wpc, wreq, stops, crashed,
                   rwReaders, rwWriter, nops, joined, h, svars>>

\* close(ch); closing a closed channel panics
Close(ch, to) ==
    /\ Running
    /\ IF ch \in closed
       THEN /\ crashed' = "close of closed channel"
            /\ UNCHANGED <<closed, spc>>
       ELSE /\ closed' = closed \cup {ch}
            /\ spc' = to
            /\ crashed' = crashed
    /\ UNCHANGED <<variant, m, pc, req, res, wpc, wreq, stops, rwReaders,
                   rwWriter, nops, joined, h, svars>>

\* a Stop that does not wait for the worker
RecvDone_nowait ==
    /\ Running
    /\ spc = "recvDone"
    /\ spc' = "returned"
    /\ UNCHANGED <<variant, m, pc, req, res, wpc, wreq, closed, stops, crashed,
                   rwReaders, rwWriter, nops, joined, h, svars>>

\* <-g.done, with the worker at g.done <- true
RecvDone ==
    /\ Running
    /\ spc = "recvDone"
    /\ wpc = "sendDone"
    /\ spc' = "returned"
    /\ wpc' = "exited"
    /\ UNCHANGED <<variant, m, pc, req, res, wreq, closed, stops, crashed,
                   rwReaders, rwWriter, nops, joined, h, svars>>

GoMap_Stop == variant = "GoMap" /\ StopCall("closeGet")

\* close(g.get)
GoMap_Stop_closeGet == variant = "GoMap" /\ spc = "closeGet" /\ Close("get", "closeSet")

\* close(g.set)
GoMap_Stop_closeSet == variant = "GoMap" /\ spc = "closeSet" /\ Close("set", "recvDone")

\* <-g.done
GoMap_Stop_done == variant = "GoMap" /\ RecvDone

\* ------------------------------------------------------------- GoMap1Chan
\* c := make(chan mapResult); g.in <- mapGet{key, c} begins
GoMap1Chan_Get(c, key) ==
    /\ variant = "GoMap1Chan"
    /\ BeginCall(c, mapGet(key, c), "send")
    /\ UNCHANGED <<variant, m, wpc, wreq, closed, spc, stops, crashed,
                   rwReaders, rwWriter, joined, svars>>

\* a Set that writes the map itself before it sends its request
GoMap1Chan_Set_direct(c, key, value) ==
    /\ variant = "GoMap1Chan"
    /\ BeginCall(c, mapSet(key, value), "send")
    /\ m' = Store(m, key, value)
    /\ UNCHANGED <<variant, wpc, wreq, closed, spc, stops, crashed,
                   rwReaders, rwWriter, joined, svars>>

\* g.in <- mapSet{key, value} begins
GoMap1Chan_Set(c, key, value) ==
    /\ variant = "GoMap1Chan"
    /\ BeginCall(c, mapSet(key, value), "send")
    /\ UNCHANGED <<variant, m, wpc, wreq, closed, spc, stops, crashed,
                   rwReaders, rwWriter, joined, svars>>

\* for i := range g.in, with a sender: the send g.in <- ... completes; a Set
\* returns here, a Get goes on to r := <-c
GoMap1Chan_run_recv(c) ==
    /\ Running /\ variant = "GoMap1Chan"
    /\ wpc = "select"
    /\ pc[c] = "send"
    /\ "in" \notin closed
    /\ wreq' = req[c]
    /\ wpc' = "switch"
    /\ IF req[c].type = "mapGet"
       THEN /\ pc' = [pc EXCEPT ![c] = "recv"]
            /\ h' = OnEffect(h, c, req[c])
            /\ UNCHANGED <<req, res>>
       ELSE /\ pc' = [pc EXCEPT ![c] = "idle"]
            /\ res' = [res EXCEPT ![c] = SetReturn(req[c])]
            /\ req' = [req EXCEPT ![c] = NoReq]
            /\ h' = OnReturn(OnEffect(h, c, req[c]), c, req[c])
    /\ UNCHANGED <<variant, m, closed, spc, stops, crashed, rwReaders,
                   rwWriter, nops, joined, svars>>

\* a worker whose mapSet case goes back to the range without the assignment
GoMap1Chan_run_switch_noStore ==
    /\ Running /\ variant = "GoMap1Chan"
    /\ wpc = "switch"
    /\ CASE wreq.type = "mapGet" ->
              /\ pc[wreq.out] = "recv"
              /\ res' = [res EXCEPT ![wreq.out] = GetReturn(wreq, Lookup(m, wreq.key))]
              /\ pc' = [pc EXCEPT ![wreq.out] = "idle"]
              /\ req' = [req EXCEPT ![wreq.out] = NoReq]
              /\ h' = OnProcessed(OnReturn(h, wreq.out, wreq))
              /\ wpc' = "select"
              /\ wreq' = NoReq
              /\ UNCHANGED <<m, crashed>>
         [] wreq.type = "mapSet" ->
              /\ h' = OnProcessed(h)
              /\ wpc' = "select"
              /\ wreq' = NoReq
              /\ UNCHANGED <<m, pc, req, res, crashed>>
         [] OTHER ->
              /\ crashed' = "Unknown type on GoMap1Chan in"
              /\ UNCHANGED <<m, pc, req, res, h, wpc, wreq>>
    /\ UNCHANGED <<variant, closed, spc, stops, rwReaders, rwWriter, nops,
                   joined, svars>>

\* switch r := i.(type): case mapGet, case mapSet, default: panic
GoMap1Chan_run_switch ==
    /\ Running /\ variant = "GoMap1Chan"
    /\ wpc = "switch"
    /\ CASE wreq.type = "mapGet" ->
              /\ pc[wreq.out] = "recv"
              /\ res' = [res EXCEPT ![wreq.out] = GetReturn(wreq, Lookup(m, wreq.key))]
              /\ pc' = [pc EXCEPT ![wreq.out] = "idle"]
              /\ req' = [req EXCEPT ![wreq.out] = NoReq]
              /\ h' = OnProcessed(OnReturn(h, wreq.out, wreq))
              /\ wpc' = "select"
              /\ wreq' = NoReq
              /\ UNCHANGED <<m, crashed>>
         [] wreq.type = "mapSet" ->
              /\ m' = Store(m, wreq.key, wreq.value)
              /\ h' = OnProcessed(h)
              /\ wpc' = "select"
              /\ wreq' = NoReq
              /\ UNCHANGED <<pc, req, res, crashed>>
         [] OTHER ->
              /\ crashed' = "Unknown type on GoMap1Chan in"
              /\ UNCHANGED <<m, pc, req, res, h, wpc, wreq>>
    /\ UNCHANGED <<variant, closed, spc, stops, rwReaders, rwWriter, nops,
                   joined, svars>>

\* range over a closed channel ends the loop; the deferred function starts
\* g.done <- true
GoMap1Chan_run_closed ==
    /\ Running /\ variant = "GoMap1Chan"
    /\ wpc = "select"
    /\ "in" \in closed
    /\ wpc' = "sendDone"
    /\ UNCHANGED <<variant, m, pc, req, res, wreq, closed, spc, stops,
                   crashed, rwReaders, rwWriter, nops, joined, h, svars>>

\* a send on a closed channel that returns as if it had been received
GoMap1Chan_send_closed_returns(c) ==
    /\ Running /\ variant = "GoMap1Chan"
    /\ pc[c] = "send"
    /\ "in" \in closed
    /\ pc' = [pc EXCEPT ![c] = "idle"]
    /\ req' = [req EXCEPT ![c] = NoReq]
    /\ UNCHANGED <<variant, m, res, wpc, wreq, closed, spc, stops, crashed,
                   rwReaders, rwWriter, nops, joined, h, svars>>

\* a send on a closed channel panics, for a sender already blocked as well
GoMap1Chan_send_closed(c) ==
    /\ Running /\ variant = "GoMap1Chan"
    /\ pc[c] = "send"
    /\ "in" \in closed
    /\ crashed' = "send on closed channel"
    /\ UNCHANGED <<variant, m, pc, req, res, wpc, wreq, closed, spc, stops,
                   rwReaders, rwWriter, nops, joined, h, svars>>

GoMap1Chan_Stop == variant = "GoMap1Chan" /\ StopCall("closeIn")

\* close(g.in)
GoMap1Chan_Stop_close == variant = "GoMap1Chan" /\ spc = "closeIn" /\ Close("in", "recvDone")

\* <-g.done
GoMap1Chan_Stop_done == variant = "GoMap1Chan" /\ RecvDone

\* ---------------------------------------------------------------- SyncMap
\* sync.RWMutex: a Lock call that is waiting for the readers to leave keeps
\* new readers out.
SyncMap_Get(c, key) ==
    /\ variant = "SyncMap"
    /\ BeginCall(c, mapGet(key, c), "rlock")
    /\ UNCHANGED <<variant, m, wpc, wreq, closed, spc, stops, crashed,
                   rwReaders, rwWriter, joined, svars>>

\* s.lock.RLock()
SyncMap_Get_RLock(c) ==
    /\ Running /\ variant = "SyncMap"
    /\ pc[c] = "rlock"
    /\ rwWriter = {}
    /\ rwReaders' = rwReaders \cup {c}
    /\ pc' = [pc EXCEPT ![c] = "reading"]
    /\ UNCHANGED <<variant, m, req, res, wpc, wreq, closed, spc, stops,
                   crashed, rwWriter, nops, joined, h, svars>>

\* value, ok := s.m[key]
SyncMap_Get_read(c) ==
    /\ Running /\ variant = "SyncMap"
    /\ pc[c] = "reading"
    /\ res' = [res EXCEPT ![c] = GetReturn(req[c], Lookup(m, req[c].key))]
    /\ pc' = [pc EXCEPT ![c] = "runlock"]
    /\ h' = OnEffect(h, c, req[c])
    /\ UNCHANGED <<variant, m, req, wpc, wreq, closed, spc, stops, crashed,
                   rwReaders, rwWriter, nops, joined, svars>>

\* defer s.lock.RUnlock(); return value, ok
SyncMap_Get_RUnlock(c) ==
    /\ Running /\ variant = "SyncMap"
    /\ pc[c] = "runlock"
    /\ rwReaders' = rwReaders \ {c}
    /\ pc' = [pc EXCEPT ![c] = "idle"]
    /\ req' = [req EXCEPT ![c] = NoReq]
    /\ h' = OnReturn(h, c, req[c])
    /\ UNCHANGED <<variant, m, res, wpc, wreq, closed, spc, stops, crashed,
                   rwWriter, nops, joined, svars>>

SyncMap_Set(c, key, value) ==
    /\ variant = "SyncMap"
    /\ BeginCall(c, mapSet(key, value), "lock")
    /\ UNCHANGED <<variant, m, wpc, wreq, closed, spc, stops, crashed,
                   rwReaders, rwWriter, joined, svars>>

\* s.lock.Lock(): claim the write lock, one writer at a time
SyncMap_Set_Lock(c) ==
    /\ Running /\ variant = "SyncMap"
    /\ pc[c] = "lock"
    /\ rwWriter = {}
    /\ rwWriter' = {c}
    /\ pc' = [pc EXCEPT ![c] = "lockwait"]
    /\ UNCHANGED <<variant, m, req, res, wpc, wreq, closed, spc, stops,
                   crashed, rwReaders, nops, joined, h, svars>>

\* a Lock that is granted while readers still hold the lock
SyncMap_Set_Locked_early(c) ==
    /\ Running /\ variant = "SyncMap"
    /\ pc[c] = "lockwait"
    /\ pc' = [pc EXCEPT ![c] = "writing"]
    /\ UNCHANGED <<variant, m, req, res, wpc, wreq, closed, spc, stops,
                   crashed, rwReaders, rwWriter, nops, joined, h, svars>>

\* s.lock.Lock(): the readers have left
SyncMap_Set_Locked(c) ==
    /\ Running /\ variant = "SyncMap"
    /\ pc[c] = "lockwait"
    /\ rwReaders = {}
    /\ pc' = [pc EXCEPT ![c] = "writing"]
    /\ UNCHANGED <<variant, m, req, res, wpc, wreq, closed, spc, stops,
                   crashed, rwReaders, rwWriter, nops, joined, h, svars>>

\* s.m[key] = value
SyncMap_Set_write(c) ==
    /\ Running /\ variant = "SyncMap"
    /\ pc[c] = "writing"
    /\ m' = Store(m, req[c].key, req[c].value)
    /\ pc' = [pc EXCEPT ![c] = "unlock"]
    /\ h' = OnEffect(h, c, req[c])
    /\ UNCHANGED <<variant, req, res, wpc, wreq, closed, spc, stops, crashed,
                   rwReaders, rwWriter, nops, joined, svars>>

\* defer s.lock.Unlock(); return
SyncMap_Set_Unlock(c) ==
    /\ Running /\ variant = "SyncMap"
    /\ pc[c] = "unlock"
    /\ rwWriter' = {}
    /\ pc' = [pc EXCEPT ![c] = "idle"]
    /\ res' = [res EXCEPT ![c] = SetReturn(req[c])]
    /\ req' = [req EXCEPT ![c] = NoReq]
    /\ h' = OnReturn(h, c, req[c])
    /\ UNCHANGED <<variant, m, wpc, wreq, closed, spc, stops, crashed,
                   rwReaders, nops, joined, svars>>

\* ---------------------------------------------------------------- harness
\* wait.Wait() returns: every TheTest goroutine has returned, no call is in
\* progress and none is made afterwards
TestInParallel_return ==
    /\ Running
    /\ ~joined
    /\ \A c \in Callers : pc[c] = "idle"
    /\ joined' = TRUE
    /\ UNCHANGED <<variant, m, pc, req, res, wpc, wreq, closed, spc, stops,
                   crashed, rwReaders, rwWriter, nops, h, svars>>

MapNext ==
    \/ \E c \in Callers, key \in Keys : GoMap_Get(c, key)
    \/ \E c \in Callers, key \in Keys, value \in Values : GoMap_Set(c, key, value)
    \/ \E c \in Callers : GoMap_run_get(c)
    \/ GoMap_run_reply
    \/ \E c \in Callers : GoMap_run_set(c)
    \/ GoMap_run_store
    \/ GoMap_run_closed
    \/ \E c \in Callers : GoMap_send_closed(c)
    \/ GoMap_Stop
    \/ GoMap_Stop_closeGet
    \/ GoMap_Stop_closeSet
    \/ GoMap_Stop_done
    \/ \E c \in Callers, key \in Keys : GoMap1Chan_Get(c, key)
    \/ \E c \in Callers, key \in Keys, value \in Values : GoMap1Chan_Set(c, key, value)
    \/ \E c \in Callers : GoMap1Chan_run_recv(c)
    \/ GoMap1Chan_run_switch
    \/ GoMap1Chan_run_closed
    \/ \E c \in Callers : GoMap1Chan_send_closed(c)
    \/ GoMap1Chan_Stop
    \/ GoMap1Chan_Stop_close
    \/ GoMap1Chan_Stop_done
    \/ \E c \in Callers, key \in Keys : SyncMap_Get(c, key)
    \/ \E c \in Callers : SyncMap_Get_RLock(c)
    \/ \E c \in Callers : SyncMap_Get_read(c)
    \/ \E c \in Callers : SyncMap_Get_RUnlock(c)
    \/ \E c \in Callers, key \in Keys, value \in Values : SyncMap_Set(c, key, value)
    \/ \E c \in Callers : SyncMap_Set_Lock(c)
    \/ \E c \in Callers : SyncMap_Set_Locked(c)
    \/ \E c \in Callers : SyncMap_Set_write(c)
    \/ \E c \in Callers : SyncMap_Set_Unlock(c)
    \/ TestInParallel_return

Spec == Init /\ [][MapNext]_vars

\* -------------------------------------------------------- ConcurrentSlice
(***************************************************************************)
(* A pass is one call of Iter: its channel c, its producer goroutine f and *)
(* the consumer that ranges over c.  iter[p] holds                         *)
(*   owner    the user that called Iter and receives from c                *)
(*   pc       the producer: "start" (go f()), "lockwait", "loop" (holding  *)
(*            the lock, at c <- item or at the end of the range), "closed" *)
(*            (close(c) done, the deferred unlock not yet), "done"         *)
(*   snap     the slice the range statement evaluated, once                *)
(*   idx      the next position of snap to send, from 1                    *)
(*   got      what the consumer has received, in order                     *)
(*   cons     the consumer: "ranging", "ended" (it saw the channel         *)
(*            closed), "abandoned" (it left its loop early)                *)
(* and, as history: lenAtCall and atLock, the length of cs.items when Iter *)
(* was called and cs.items when the producer got the lock; newer and       *)
(* newerLock, the Go indexes of the items appended by Append calls made    *)
(* by another user after Iter returned, and by any user after the producer *)
(* got the lock.                                                           *)
(***************************************************************************)
ConcurrentSliceItem(index, value) == [Index |-> index, Value |-> value]

User(u) == <<"user", u>>

Producer(p) == <<"iter", p>>

SInit ==
    /\ csVariant \in SliceVariants
    /\ items = <<>>
    /\ csReaders = {}
    /\ csWriter = {}
    /\ upc = [u \in Users |-> "idle"]
    /\ ucall = [u \in Users |-> NoCall]
    /\ ures = [u \in Users |-> NoCall]
    /\ iter = <<>>
    /\ ncalls = 0
    /\ cspanic = "none"
    /\ variant = "none"
    /\ m = EmptyMap
    /\ pc = [c \in Callers |-> "idle"]
    /\ req = [c \in Callers |-> NoReq]
    /\ res = [c \in Callers |-> NoRes]
    /\ wpc = "absent"
    /\ wreq = NoReq
    /\ closed = {}
    /\ spc = "idle"
    /\ stops = 0
    /\ crashed = "none"
    /\ rwReaders = {}
    /\ rwWriter = {}
    /\ nops = 0
    /\ joined = FALSE
    /\ h = HInit

SRunning == cspanic = "none"

Passes == 1..Len(iter)

\* the pass user u is ranging over, if any
OpenPasses(u) == {p \in Passes : iter[p].owner = u /\ iter[p].cons = "ranging"}

\* the passes whose Iter call has returned and whose producer has not finished
Started == {p \in Passes : iter[p].pc # "done"}

\* the passes whose producer holds the lock
Locked == {p \in Passes : iter[p].pc \in {"loop", "closed"}}

\* RLock: blocked while a writer holds or waits for the lock
RLock(who) ==
    /\ csWriter = {}
    /\ csReaders' = csReaders \cup {who}
    /\ UNCHANGED csWriter

\* Lock, first half: one writer at a time claims the lock
LockClaim(who) ==
    /\ csWriter = {}
    /\ csWriter' = {who}
    /\ UNCHANGED csReaders

\* a Lock that is granted while readers still hold the lock
LockGranted_ignoreReaders(who) ==
    /\ csWriter = {who}
    /\ UNCHANGED <<csWriter, csReaders>>

\* Lock, second half: the readers have left
LockGranted(who) ==
    /\ csWriter = {who}
    /\ csReaders = {}
    /\ UNCHANGED <<csWriter, csReaders>>

RUnlock(who) ==
    /\ csReaders' = csReaders \ {who}
    /\ UNCHANGED csWriter

Unlock(who) ==
    /\ csWriter' = {}
    /\ UNCHANGED csReaders

\* Append is called: cs.Lock() begins
Append_call(u, item) ==
    /\ SRunning
    /\ upc[u] = "idle"
    /\ ncalls < MaxCalls
    /\ ncalls' = ncalls + 1
    /\ upc' = [upc EXCEPT ![u] = "lock"]
    /\ ucall' = [ucall EXCEPT ![u] =
           [op |-> "Append", item |-> item,
            after |-> {p \in Started : iter[p].owner # u},
            afterLock |-> Locked]]
    /\ UNCHANGED <<csVariant, items, csReaders, csWriter, ures, iter,
                   cspanic, mvars>>

\* cs.Lock(): claim
Append_Lock(u) ==
    /\ SRunning
    /\ upc[u] = "lock" /\ ucall[u].op = "Append"
    /\ LockClaim(User(u))
    /\ upc' = [upc EXCEPT ![u] = "lockwait"]
    /\ UNCHANGED <<csVariant, items, ucall, ures, iter, ncalls,
                   cspanic, mvars>>

\* cs.Lock(): granted
Append_Locked(u) ==
    /\ SRunning
    /\ upc[u] = "lockwait" /\ ucall[u].op = "Append"
    /\ LockGranted(User(u))
    /\ upc' = [upc EXCEPT ![u] = "locked"]
    /\ UNCHANGED <<csVariant, items, ucall, ures, iter, ncalls,
                   cspanic, mvars>>

\* history: the item at Go index i was appended by a call made after these passes
MarkNewer(it, call, i) ==
    [p \in DOMAIN it |->
        [it[p] EXCEPT
           !.newer = IF p \in call.after THEN @ \cup {i} ELSE @,
           !.newerLock = IF p \in call.afterLock THEN @ \cup {i} ELSE @]]

\* an Append that puts the item in front of the others
Append_prepend(u) ==
    /\ SRunning
    /\ upc[u] = "locked" /\ ucall[u].op = "Append"
    /\ items' = <<ucall[u].item>> \o items
    /\ iter' = MarkNewer(iter, ucall[u], Len(items))
    /\ Unlock(User(u))
    /\ upc' = [upc EXCEPT ![u] = "idle"]
    /\ ucall' = [ucall EXCEPT ![u] = NoCall]
    /\ UNCHANGED <<csVariant, ures, ncalls, cspanic, mvars>>

\* cs.items = append(cs.items, item); defer cs.Unlock()
Append_append(u) ==
    /\ SRunning
    /\ upc[u] = "locked" /\ ucall[u].op = "Append"
    /\ items' = Append(items, ucall[u].item)
    /\ iter' = MarkNewer(iter, ucall[u], Len(items))
    /\ Unlock(User(u))
    /\ upc' = [upc EXCEPT ![u] = "idle"]
    /\ ucall' = [ucall EXCEPT ![u] = NoCall]
    /\ UNCHANGED <<csVariant, ures, ncalls, cspanic, mvars>>

\* isset: len(arr) > index
isset(arr, index) == Len(arr) > index

\* cs.items[index]: a panic when index is outside 0..len-1
InRange(arr, index) == 0 <= index /\ index < Len(arr)

\* Get is called: cs.RLock() (with the check) or cs.Lock() (without) begins
Get_call(u, index) ==
    /\ SRunning
    /\ upc[u] = "idle"
    /\ ncalls < MaxCalls
    /\ ncalls' = ncalls + 1
    /\ upc' = [upc EXCEPT ![u] = IF csVariant = "checked" THEN "rlock" ELSE "lock"]
    /\ ucall' = [ucall EXCEPT ![u] = [op |-> "Get", index |-> index]]
    /\ ures' = [ures EXCEPT ![u] = NoCall]
    /\ UNCHANGED <<csVariant, items, csReaders, csWriter, iter,
                   cspanic, mvars>>

\* cs.RLock()
Get_RLock(u) ==
    /\ SRunning /\ csVariant = "checked"
    /\ upc[u] = "rlock" /\ ucall[u].op = "Get"
    /\ RLock(User(u))
    /\ upc' = [upc EXCEPT ![u] = "locked"]
    /\ UNCHANGED <<csVariant, items, ucall, ures, iter, ncalls,
                   cspanic, mvars>>

\* if isset(cs.items, index) { return cs.items[index] }; return nil
\* defer cs.RUnlock()
Get_checked(u) ==
    /\ SRunning /\ csVariant = "checked"
    /\ upc[u] = "locked" /\ ucall[u].op = "Get"
    /\ RUnlock(User(u))
    /\ upc' = [upc EXCEPT ![u] = "idle"]
    /\ ucall' = [ucall EXCEPT ![u] = NoCall]
    /\ IF isset(items, ucall[u].index)
       THEN IF InRange(items, ucall[u].index)
            THEN /\ ures' = [ures EXCEPT ![u] =
                       [op |-> "Get", index |-> ucall[u].index,
                        item |-> items[ucall[u].index + 1]]]
                 /\ UNCHANGED cspanic
            ELSE /\ cspanic' = "index out of range"
                 /\ UNCHANGED ures
       ELSE /\ ures' = [ures EXCEPT ![u] =
                  [op |-> "Get", index |-> ucall[u].index, item |-> Nil]]
            /\ UNCHANGED cspanic
    /\ UNCHANGED <<csVariant, items, iter, ncalls, mvars>>

\* cs.Lock(): claim
Get_Lock(u) ==
    /\ SRunning /\ csVariant = "unchecked"
    /\ upc[u] = "lock" /\ ucall[u].op = "Get"
    /\ LockClaim(User(u))
    /\ upc' = [upc EXCEPT ![u] = "lockwait"]
    /\ UNCHANGED <<csVariant, items, ucall, ures, iter, ncalls,
                   cspanic, mvars>>

\* cs.Lock(): granted
Get_Locked(u) ==
    /\ SRunning /\ csVariant = "unchecked"
    /\ upc[u] = "lockwait" /\ ucall[u].op = "Get"
    /\ LockGranted(User(u))
    /\ upc' = [upc EXCEPT ![u] = "locked"]
    /\ UNCHANGED <<csVariant, items, ucall, ures, iter, ncalls,
                   cspanic, mvars>>

\* return cs.items[index]; defer cs.Unlock()
Get_unchecked(u) ==
    /\ SRunning /\ csVariant = "unchecked"
    /\ upc[u] = "locked" /\ ucall[u].op = "Get"
    /\ Unlock(User(u))
    /\ upc' = [upc EXCEPT ![u] = "idle"]
    /\ ucall' = [ucall EXCEPT ![u] = NoCall]
    /\ IF InRange(items, ucall[u].index)
       THEN /\ ures' = [ures EXCEPT ![u] =
                  [op |-> "Get", index |-> ucall[u].index,
                   item |-> items[ucall[u].index + 1]]]
            /\ UNCHANGED cspanic
       ELSE /\ cspanic' = "index out of range"
            /\ UNCHANGED ures
    /\ UNCHANGED <<csVariant, items, iter, ncalls, mvars>>

\* c := make(chan ConcurrentSliceItem); go f(); return c
Iter_call(u) ==
    /\ SRunning
    /\ upc[u] = "idle"
    /\ OpenPasses(u) = {}
    /\ ncalls < MaxCalls
    /\ ncalls' = ncalls + 1
    /\ iter' = Append(iter,
           [owner |-> u, pc |-> "start", snap |-> <<>>, idx |-> 1, got |-> <<>>,
            cons |-> "ranging", lenAtCall |-> Len(items), atLock |-> <<>>,
            newer |-> {}, newerLock |-> {}])
    /\ UNCHANGED <<csVariant, items, csReaders, csWriter, upc, ucall, ures,
                   cspanic, mvars>>

\* a range that stops one item short
RangeItems_short(arr) == SubSeq(arr, 1, Len(arr) - 1)

\* for index, value := range cs.items: the range expression is evaluated once
RangeItems(arr) == arr

\* the producer holds the lock and starts its loop
EnterLoop(p) ==
    iter' = [iter EXCEPT ![p].pc = "loop", ![p].snap = RangeItems(items),
                         ![p].atLock = items]

\* f: cs.RLock()
Iter_RLock(p) ==
    /\ SRunning /\ csVariant = "checked"
    /\ iter[p].pc = "start"
    /\ RLock(Producer(p))
    /\ EnterLoop(p)
    /\ UNCHANGED <<csVariant, items, upc, ucall, ures, ncalls,
                   cspanic, mvars>>

\* f: cs.Lock(): claim
Iter_Lock(p) ==
    /\ SRunning /\ csVariant = "unchecked"
    /\ iter[p].pc = "start"
    /\ LockClaim(Producer(p))
    /\ iter' = [iter EXCEPT ![p].pc = "lockwait"]
    /\ UNCHANGED <<csVariant, items, upc, ucall, ures, ncalls,
                   cspanic, mvars>>

\* f: cs.Lock(): granted
Iter_Locked(p) ==
    /\ SRunning /\ csVariant = "unchecked"
    /\ iter[p].pc = "lockwait"
    /\ LockGranted(Producer(p))
    /\ EnterLoop(p)
    /\ UNCHANGED <<csVariant, items, upc, ucall, ures, ncalls,
                   cspanic, mvars>>

\* a consumer taken to be at its receive while it is inside another call
Receiving_whileBusy(p) == iter[p].cons = "ranging"

\* the consumer of pass p is at its receive: for item := range c
Receiving(p) == iter[p].cons = "ranging" /\ upc[iter[p].owner] = "idle"

\* an item sent with the position counted from 1
NextItem_fromOne(it) == ConcurrentSliceItem(it.idx, it.snap[it.idx])

\* ConcurrentSliceItem{index, value} of the current iteration of the range
NextItem(it) == ConcurrentSliceItem(it.idx - 1, it.snap[it.idx])

\* a send that completes without a receiver, as on a buffered channel
Iter_send_buffered(p) ==
    /\ SRunning
    /\ iter[p].pc = "loop"
    /\ iter[p].idx <= Len(iter[p].snap)
    /\ iter' = [iter EXCEPT ![p].idx = @ + 1]
    /\ UNCHANGED <<csVariant, items, csReaders, csWriter, upc, ucall, ures,
                   ncalls, cspanic, mvars>>

\* c <- ConcurrentSliceItem{index, value}, received by the consumer
Iter_send(p) ==
    /\ SRunning
    /\ iter[p].pc = "loop"
    /\ iter[p].idx <= Len(iter[p].snap)
    /\ Receiving(p)
    /\ iter' = [iter EXCEPT
           ![p].got = Append(@, NextItem(iter[p])),
           ![p].idx = @ + 1]
    /\ UNCHANGED <<csVariant, items, csReaders, csWriter, upc, ucall, ures,
                   ncalls, cspanic, mvars>>

\* close(c), after the last item
Iter_close(p) ==
    /\ SRunning
    /\ iter[p].pc = "loop"
    /\ iter[p].idx > Len(iter[p].snap)
    /\ iter' = [iter EXCEPT ![p].pc = "closed"]
    /\ UNCHANGED <<csVariant, items, csReaders, csWriter, upc, ucall, ures,
                   ncalls, cspanic, mvars>>

\* defer cs.RUnlock() (with the check) or cs.Unlock() (without)
Iter_unlock(p) ==
    /\ SRunning
    /\ iter[p].pc = "closed"
    /\ IF csVariant = "checked" THEN RUnlock(Producer(p)) ELSE Unlock(Producer(p))
    /\ iter' = [iter EXCEPT ![p].pc = "done"]
    /\ UNCHANGED <<csVariant, items, upc, ucall, ures, ncalls,
                   cspanic, mvars>>

\* the consumer's receive finds the channel closed: its range loop ends
Iter_end(p) ==
    /\ SRunning
    /\ iter[p].pc \in {"closed", "done"}
    /\ Receiving(p)
    /\ iter' = [iter EXCEPT ![p].cons = "ended"]
    /\ UNCHANGED <<csVariant, items, csReaders, csWriter, upc, ucall, ures,
                   ncalls, cspanic, mvars>>

\* the consumer leaves its loop before the end of the stream
Iter_break(p) ==
    /\ SRunning
    /\ iter[p].pc \in {"start", "lockwait", "loop"}
    /\ Receiving(p)
    /\ iter' = [iter EXCEPT ![p].cons = "abandoned"]
    /\ UNCHANGED <<csVariant, items, csReaders, csWriter, upc, ucall, ures,
                   ncalls, cspanic, mvars>>

SliceNext ==
    \/ \E u \in Users, item \in Values : Append_call(u, item)
    \/ \E u \in Users : Append_Lock(u)
    \/ \E u \in Users : Append_Locked(u)
    \/ \E u \in Users : Append_append(u)
    \/ \E u \in Users, index \in Indexes : Get_call(u, index)
    \/ \E u \in Users : Get_RLock(u)
    \/ \E u \in Users : Get_checked(u)
    \/ \E u \in Users : Get_Lock(u)
    \/ \E u \in Users : Get_Locked(u)
    \/ \E u \in Users : Get_unchecked(u)
    \/ \E u \in Users : Iter_call(u)
    \/ \E p \in Passes : Iter_RLock(p)
    \/ \E p \in Passes : Iter_Lock(p)
    \/ \E p \in Passes : Iter_Locked(p)
    \/ \E p \in Passes : Iter_send(p)
    \/ \E p \in Passes : Iter_close(p)
    \/ \E p \in Passes : Iter_unlock(p)
    \/ \E p \in Passes : Iter_end(p)
    \/ \E p \in Passes : Iter_break(p)

SliceSpec == SInit /\ [][SliceNext]_vars

\* -------------------------------------------------- fairness (scheduling)
(***************************************************************************)
(* The Go scheduler runs every runnable goroutine: the worker takes its    *)
(* next step when one is possible, Stop goes on once called, and a send on *)
(* a closed channel panics.  Callers are free to make no further call.     *)
(***************************************************************************)
WorkerStep ==
    \/ \E c \in Callers : GoMap_run_get(c)
    \/ GoMap_run_reply
    \/ \E c \in Callers : GoMap_run_set(c)
    \/ GoMap_run_store
    \/ GoMap_run_closed
    \/ \E c \in Callers : GoMap1Chan_run_recv(c)
    \/ GoMap1Chan_run_switch
    \/ GoMap1Chan_run_closed

StopStep ==
    \/ GoMap_Stop_closeGet
    \/ GoMap_Stop_closeSet
    \/ GoMap_Stop_done
    \/ GoMap1Chan_Stop_close
    \/ GoMap1Chan_Stop_done

PanicStep ==
    \/ \E c \in Callers : GoMap_send_closed(c)
    \/ \E c \in Callers : GoMap1Chan_send_closed(c)

FairSpec ==
    /\ Init /\ [][MapNext]_vars
    /\ WF_vars(WorkerStep)
    /\ WF_vars(StopStep)
    /\ WF_vars(PanicStep)

\* ------------------------------------------------------------- properties
Actor == variant \in {"GoMap", "GoMap1Chan"}

\* caller c has a completed Get to show
GotValue(c) == res[c].type = "mapGet"

\* what that Get returned, as a result pair
Returned(c) == [value |-> res[c].value, ok |-> res[c].ok]

(***************************************************************************)
(* C1  Read your own write, on GoMap, GoMap1Chan and SyncMap: when a       *)
(* caller's Get(k) takes effect while that caller's own Set on k is the    *)
(* last Set on k to have taken effect (no other caller's Set on k came     *)
(* between), the Get returns the value of the caller's last returned       *)
(* Set(k, v), with found = true.                                           *)
(***************************************************************************)
C1_ReadYourWrite ==
    \A c \in Callers :
        (GotValue(c) /\ h.op[c].fresh)
            => Returned(c) = [value |-> h.mine[c][res[c].key], ok |-> TRUE]

\* a caller of GoMap got its own value back while the other caller had a Set
\* on another key in between
C1_Witness ==
    \E c \in Callers, k \in Keys :
        /\ variant = "GoMap"
        /\ GotValue(c) /\ h.op[c].fresh /\ res[c].key = k
        /\ res[c].value = "v2"
        /\ \E k2 \in Keys \ {k} : h.lastSetter[k2] = Callers \ {c}

TwoSets(k) ==
    /\ h.wr[k].n = 2
    /\ Cardinality(h.wr[k].by) = 2
    /\ Cardinality(h.wr[k].vals) = 2
    /\ ~InFlightSet(k)

LaterGet(c, k) ==
    GotValue(c) /\ res[c].key = k /\ h.op[c].late /\ h.op[c].nsets = 2

(***************************************************************************)
(* C2  Two Sets on one key by two callers, with different values, on an    *)
(* actor store: once both have returned and no further Set on that key has *)
(* been called, the final value of the key is one of the two values, the   *)
(* map holds it as soon as the worker has applied the writes it accepted,  *)
(* and every Get of that key called after both Sets returned returns this  *)
(* same value, whoever calls it.                                           *)
(***************************************************************************)
C2_WritesLinearized ==
    Actor =>
        \A k \in Keys :
            TwoSets(k) =>
                /\ SeqGet(h.seq, k).ok
                /\ SeqGet(h.seq, k).value \in h.wr[k].vals
                /\ wreq.type # "mapSet" => Lookup(m, k) = mapResult(h.seq[k], TRUE)
                /\ \A c \in Callers :
                       LaterGet(c, k) => Returned(c) = [value |-> h.seq[k], ok |-> TRUE]

C2_Witness ==
    \E k \in Keys, c \in Callers :
        /\ Actor /\ TwoSets(k) /\ LaterGet(c, k)
        /\ res[c].value = "v1"
        /\ h.lastSetter[k] # {c}

(***************************************************************************)
(* C3  On the actor variants the order in which the worker receives the    *)
(* operations is one global sequence: every Get returns what the           *)
(* sequential map, to which every Set is applied as the worker receives    *)
(* it, held when the worker received that Get; every call takes effect     *)
(* exactly once, after it is made and before it returns (so the sequence   *)
(* keeps each caller's own order), and the worker holds at most one        *)
(* received operation that it has not finished.                            *)
(***************************************************************************)
C3_GlobalSequence ==
    Actor =>
        /\ \A c \in Callers :
               /\ GotValue(c) => Returned(c) = h.op[c].want
               /\ res[c].type # "none" => h.op[c].effects = 1
               /\ pc[c] = "send" => h.op[c].effects = 0
               /\ pc[c] = "recv" => h.op[c].effects = 1
        /\ h.nrecv - h.ndone = (IF wreq = NoReq THEN 0 ELSE 1)
        /\ wreq = NoReq => m = h.seq

\* a Get that returned the value another caller had set
C3_Witness ==
    \E c \in Callers :
        /\ Actor
        /\ GotValue(c) /\ res[c].ok /\ ~h.op[c].fresh
        /\ h.nrecv = MaxOps

StopInProgress == spc \in {"closeGet", "closeSet", "closeIn", "recvDone"}

NothingBlocked ==
    /\ spc = "returned"
    /\ wpc = "exited"
    /\ \A c \in Callers : pc[c] = "idle"

(***************************************************************************)
(* C4  Shutdown terminates: when Stop is called once, after every caller   *)
(* goroutine has finished (all calls have returned and none is made        *)
(* afterwards), then under fair scheduling Stop returns and the worker has *)
(* exited, with no caller, worker or stopper left blocked.                 *)
(***************************************************************************)
C4_StopTerminates ==
    (Actor /\ stops = 1 /\ h.stopAt = "quiescent" /\ StopInProgress)
        ~> (NothingBlocked /\ crashed = "none")

C4_Witness ==
    /\ Actor /\ stops = 1 /\ h.stopAt = "quiescent"
    /\ NothingBlocked
    /\ nops = MaxOps
    /\ crashed = "none"

StopReturned == spc = "returned" \/ stops >= 2

(***************************************************************************)
(* C5  Whenever a Stop call has returned, the worker has left its loop and *)
(* has finished every request it received: every received Set is in the    *)
(* map, every received Get has been answered, nothing received is dropped. *)
(***************************************************************************)
C5_StopAfterProcessing ==
    (Actor /\ StopReturned) =>
        /\ wpc = "exited"
        /\ wreq = NoReq
        /\ m = h.seq
        /\ h.ndone = h.nrecv
        /\ \A c \in Callers : pc[c] # "recv"

\* Stop was called while calls were in progress, and returned after the worker
\* had received a Get and a Set
C5_Witness ==
    /\ Actor /\ StopReturned
    /\ h.stopAt = "busy"
    /\ h.nrecv >= 2
    /\ m # EmptyMap
    /\ \E c \in Callers : GotValue(c)

GetStep ==
    \E c \in Callers :
        /\ pc'[c] # pc[c]
        /\ (req[c].type = "mapGet" \/ req'[c].type = "mapGet")

C8_GetResult ==
    \A c \in Callers :
        GotValue(c) =>
            /\ res[c].ok <=> h.op[c].want.ok
            /\ ~res[c].ok => res[c].value = Nil
            /\ res[c].ok => res[c].value = h.op[c].want.value

(***************************************************************************)
(* C8  On every variant a Get reports found = false, with a nil value,     *)
(* exactly when no Set on its key had taken effect before it, and          *)
(* otherwise found = true with the value of the last Set on the key that   *)
(* took effect; and no step of a Get changes the map.                      *)
(***************************************************************************)
C8_GetSemantics == [] C8_GetResult /\ [][GetStep => m' = m]_vars

\* a Get of a missing key, on a map that holds another key
C8_Witness ==
    \E c \in Callers :
        /\ GotValue(c) /\ ~res[c].ok /\ res[c].value = Nil
        /\ m # EmptyMap
        /\ variant = "SyncMap"

SendChannel(c) ==
    IF variant = "GoMap1Chan" THEN "in"
    ELSE IF req[c].type = "mapGet" THEN "get" ELSE "set"

SendOnClosed(c) == pc[c] = "send" /\ SendChannel(c) \in closed

C9_Stuck ==
    \A c \in Callers :
        SendOnClosed(c) =>
            /\ pc'[c] = "send"
            /\ req'[c] = req[c]
            /\ res'[c] = res[c]
            /\ h'.op[c].effects = 0
            /\ (m' # m => wreq.type = "mapSet")

(***************************************************************************)
(* C9  A Get or Set whose send is pending on a request channel that Stop   *)
(* has closed never completes: the caller stays at its send, gets no       *)
(* result, its operation never takes effect on the map, and under fair     *)
(* scheduling the process aborts; with a single Stop call the only abort   *)
(* is the panic of a send on a closed channel.                             *)
(***************************************************************************)
C9_SendOnClosedAborts ==
    /\ [][C9_Stuck]_vars
    /\ [](crashed # "none" /\ stops < 2 => crashed = "send on closed channel")
    /\ (\E c \in Callers : SendOnClosed(c)) ~> (crashed # "none")

C9_Witness ==
    /\ crashed = "send on closed channel"
    /\ \E c \in Callers : SendOnClosed(c) /\ req[c].type = "mapSet"
    /\ variant = "GoMap"
    /\ "get" \in closed

\* the Go indexes pass p has delivered
Delivered(p) == {iter[p].got[i].Index : i \in 1..Len(iter[p].got)}

\* the stream of a list: every item with its Go index, in ascending order
Stream(arr) == [i \in 1..Len(arr) |-> ConcurrentSliceItem(i - 1, arr[i])]

(***************************************************************************)
(* C6  Get(i) with i < 0 or i >= length never panics and returns nil, for  *)
(* every length from 0 upward, after any Appends (stated for the Get with  *)
(* the isset check).                                                       *)
(***************************************************************************)
C6_BoundsSafe ==
    csVariant = "checked" =>
        /\ cspanic = "none"
        /\ \A u \in Users :
               (ures[u].op = "Get" /\ ~InRange(items, ures[u].index))
                   => ures[u].item = Nil

(***************************************************************************)
(* C7, as claimed  Once Iter() has been called, an item appended by an     *)
(* Append call that another caller makes afterwards is never delivered in  *)
(* that pass; and a pass                                                   *)
(* whose consumer received to the end of the stream has delivered every    *)
(* item that was in the list when its Iter() was called.                   *)
(***************************************************************************)
C7_SnapshotAtCall ==
    \A p \in Passes :
        /\ Delivered(p) \cap iter[p].newer = {}
        /\ iter[p].cons = "ended" => (0 .. iter[p].lenAtCall - 1) \subseteq Delivered(p)

(***************************************************************************)
(* C7, amended  Once the producer goroutine of a pass has acquired the     *)
(* lock, an item appended by an Append call made afterwards is never       *)
(* delivered in that pass; and a pass whose consumer received to the end   *)
(* of the stream has delivered every item that was in the list when its    *)
(* Iter() was called, each with the value the list holds at that index.    *)
(***************************************************************************)
C7_SnapshotAtLock ==
    \A p \in Passes :
        /\ Delivered(p) \cap iter[p].newerLock = {}
        /\ iter[p].cons = "ended" =>
               \A j \in 0 .. iter[p].lenAtCall - 1 :
                   \E i \in 1..Len(iter[p].got) :
                       iter[p].got[i] = ConcurrentSliceItem(j, items[j + 1])

\* a pass over a list of one item, received to the end, and an Append made
\* while its producer held the lock
C7_Witness ==
    \E p \in Passes :
        /\ iter[p].cons = "ended"
        /\ iter[p].lenAtCall = 1
        /\ iter[p].newerLock # {}
        /\ Len(iter[p].got) = 1

(***************************************************************************)
(* C10  A pass delivers the items the list held when the producer acquired *)
(* the lock, each with its index, in ascending index order, each once: at  *)
(* every moment the consumer holds a prefix of that stream, and a consumer *)
(* that has seen the end of the stream holds all of it, the channel being  *)
(* closed; for an empty list the channel is closed with nothing delivered. *)
(***************************************************************************)
C10_IterStream ==
    \A p \in Passes :
        /\ Len(iter[p].got) <= Len(iter[p].atLock)
        /\ iter[p].got = SubSeq(Stream(iter[p].atLock), 1, Len(iter[p].got))
        /\ iter[p].cons = "ended" =>
               /\ iter[p].got = Stream(iter[p].atLock)
               /\ iter[p].pc \in {"closed", "done"}
        /\ iter[p].pc \in {"closed", "done"} => iter[p].got = Stream(iter[p].atLock)

C10_Witness ==
    \E p \in Passes :
        /\ iter[p].cons = "ended"
        /\ iter[p].got = <<ConcurrentSliceItem(0, "v2"), ConcurrentSliceItem(1, "v1")>>

\* the producer of pass p holds the lock: shared in the file with the isset
\* check, exclusive in the other
HoldsLock(readers, writer, p) ==
    IF csVariant = "checked" THEN Producer(p) \in readers
    ELSE writer = {Producer(p)}

\* user u is inside the locked section of Append
Appending(u) == ucall[u].op = "Append" /\ upc[u] = "locked"

(***************************************************************************)
(* C11  The producer of a pass holds the lock for the whole pass: from the *)
(* moment it has the lock until its deferred unlock after close(c), the    *)
(* list is the one it found, it is a holder of the lock and no Append is   *)
(* inside its locked section; and an item appended by an Append called     *)
(* while the producer held the lock is in the list only after the pass is  *)
(* over, the consumer having been handed every item of the pass.           *)
(***************************************************************************)
C11_LockHeldForPass ==
    \A p \in Passes :
        /\ p \in Locked =>
               /\ items = iter[p].atLock
               /\ HoldsLock(csReaders, csWriter, p)
               /\ \A u \in Users : ~Appending(u)
        /\ iter[p].newerLock # {} =>
               /\ iter[p].pc = "done"
               /\ iter[p].got = Stream(iter[p].atLock)

\* an Append called during a pass over one item took effect after the pass
C11_Witness ==
    \E p \in Passes :
        /\ iter[p].newerLock # {}
        /\ Len(iter[p].got) = 1
        /\ Len(items) = 2
        /\ csVariant = "checked"

(***************************************************************************)
(* C12  On an actor store a Set returns as soon as the worker has received *)
(* its request (there is no state in which a Set has been received and has *)
(* not returned), and whenever the worker is ready to receive its next     *)
(* request, or has left its loop, it holds no request and the map reflects *)
(* every Set it has received.                                              *)
(***************************************************************************)
C12_SetAppliedBeforeNextReceive ==
    Actor =>
        /\ wpc \in {"select", "sendDone", "exited"} => (wreq = NoReq /\ m = h.seq)
        /\ \A c \in Callers :
               /\ req[c].type = "mapSet" => (pc[c] = "send" /\ h.op[c].effects = 0)
               /\ res[c].type = "mapSet" => (pc[c] = "idle" /\ h.op[c].effects = 1)

\* the worker is back at its receive with two received Sets in the map
C12_Witness ==
    /\ variant = "GoMap1Chan"
    /\ wpc = "select"
    /\ h.nrecv >= 2
    /\ DOMAIN m = Keys
    /\ \E c \in Callers : res[c].type = "mapSet"

C13_Step ==
    Actor =>
        /\ (pc' # pc \/ req' # req \/ spc' # spc \/ stops' # stops) => m' = m
        /\ m' # m =>
               /\ wreq.type = "mapSet"
               /\ wpc \in {"gotSet", "switch"}
               /\ wreq' = NoReq
               /\ m' = [k \in (DOMAIN m) \cup {wreq.key} |->
                           IF k = wreq.key THEN wreq.value ELSE m[k]]

(***************************************************************************)
(* C13  On the actor variants only the worker touches the map: a step in   *)
(* which a caller moves inside Get, Set or Stop leaves the map unchanged,  *)
(* and the map changes only in the worker's step that processes the Set    *)
(* request it holds, which sets the entry of that request's key and keeps  *)
(* every other entry.                                                      *)
(***************************************************************************)
C13_WorkerOwnsMap == [][C13_Step]_vars

\* the worker has written both keys and Stop has been called
C13_Witness ==
    /\ variant = "GoMap1Chan"
    /\ DOMAIN m = Keys
    /\ m["7"] # m["999"]
    /\ stops >= 1

InRead(c) == pc[c] \in {"reading", "runlock"}

InWrite(c) == pc[c] \in {"writing", "unlock"}

(***************************************************************************)
(* C14  On SyncMap a Set inside its locked section is alone: it holds the  *)
(* write lock, no caller holds the read lock and no other Get or Set is    *)
(* inside its own locked section; a Get inside its section holds the read  *)
(* lock (Gets may be there together).                                      *)
(***************************************************************************)
C14_SetExclusive ==
    variant = "SyncMap" =>
        \A c \in Callers :
            /\ InWrite(c) =>
                   /\ rwWriter = {c}
                   /\ rwReaders = {}
                   /\ \A d \in Callers \ {c} : ~InRead(d) /\ ~InWrite(d)
            /\ InRead(c) => c \in rwReaders

\* a Set is at its write while the other caller's Get waits for the lock
C14_Witness ==
    \E c \in Callers, d \in Callers :
        /\ variant = "SyncMap"
        /\ pc[c] = "writing"
        /\ pc[d] = "rlock"
        /\ m # EmptyMap

C15_Step ==
    /\ Len(items') >= Len(items)
    /\ items' # items =>
           /\ Len(items') = Len(items) + 1
           /\ SubSeq(items', 1, Len(items)) = items
           /\ \E u \in Users :
                  /\ Appending(u)
                  /\ items'[Len(items')] = ucall[u].item
                  /\ ucall'[u] = NoCall

C15_GetStable ==
    \A u \in Users :
        (ures[u].op = "Get" /\ ures[u].item # Nil) =>
            /\ InRange(items, ures[u].index)
            /\ items[ures[u].index + 1] = ures[u].item

(***************************************************************************)
(* C15  ConcurrentSlice is append-only with stable positions: no step      *)
(* makes the list shorter; a step that changes it is the locked step of    *)
(* one Append, which makes it one longer, keeps every earlier position and *)
(* puts its item last; and a value a Get has returned for a position is    *)
(* the value the list holds at that position ever after.                   *)
(***************************************************************************)
C15_AppendOnly == [] C15_GetStable /\ [][C15_Step]_vars

\* Get(0) returned the first item and a second item was appended afterwards
C15_Witness ==
    \E u \in Users :
        /\ ures[u].op = "Get" /\ ures[u].index = 0 /\ ures[u].item = "v1"
        /\ items = <<"v1", "v2">>

(***************************************************************************)
(* C16  Stop on an actor store is not idempotent: a second Stop call never *)
(* gets past its first close, which finds the channel closed; it never     *)
(* returns, the close-of-closed-channel panic occurs only in a second      *)
(* Stop, and under fair scheduling the process aborts.                     *)
(***************************************************************************)
C16_SecondStopAborts ==
    /\ [](Actor /\ stops >= 2 => spc \in {"closeGet", "closeIn"})
    /\ [](crashed = "close of closed channel" => stops >= 2)
    /\ (Actor /\ stops >= 2) ~> (crashed # "none")

\* the second Stop of a GoMap that had served requests panicked in close(g.get)
C16_Witness ==
    /\ variant = "GoMap"
    /\ stops = 2
    /\ crashed = "close of closed channel"
    /\ closed = {"get", "set"}
    /\ m # EmptyMap

C17_Pending ==
    Actor =>
        /\ \A c \in Callers :
               /\ pc[c] = "recv" => (wreq = req[c] /\ wreq.type = "mapGet" /\ wreq.out = c)
               /\ req[c].type = "mapGet" => res[c] = NoRes
        /\ wreq.type = "mapGet" => (pc[wreq.out] = "recv" /\ req[wreq.out] = wreq)
        /\ Cardinality({c \in Callers : pc[c] = "recv"}) <= 1

C17_Reply ==
    Actor =>
        \A c \in Callers :
            /\ (pc[c] = "recv" /\ pc'[c] # "recv") =>
                   /\ res'[c] = GetReturn(req[c], Lookup(m, req[c].key))
                   /\ \A d \in Callers \ {c} : res'[d] = res[d] /\ pc'[d] = pc[d]
            /\ (res'[c] # res[c] /\ res'[c].type = "mapGet") => pc[c] = "recv"

(***************************************************************************)
(* C17  Request/response correlation on the actor variants: the worker     *)
(* holds at most one Get that it has received and not answered, and it is  *)
(* the request of the one caller waiting for a reply; a Get has no result  *)
(* until it is answered; the answer goes to the caller that sent the       *)
(* request, is the lookup of the key that caller asked for, and changes    *)
(* no other caller's result or position.                                   *)
(***************************************************************************)
C17_Correlation == [] C17_Pending /\ [][C17_Reply]_vars

\* one caller has its answer for one key while the worker holds the other
\* caller's Get of the other key
C17_Witness ==
    \E c \in Callers, d \in Callers :
        /\ Actor
        /\ GotValue(c) /\ res[c].ok
        /\ pc[d] = "recv" /\ req[d].key # res[c].key
        /\ wreq.out = d

\* a call of Append by user u is waiting for the lock
AppendWaiting(u) == ucall[u].op = "Append" /\ upc[u] \in {"lock", "lockwait"}

\* the consumer of pass p has left its loop and the producer is at c <- item
AbandonedBlocked(p) ==
    /\ iter[p].cons = "abandoned"
    /\ iter[p].pc = "loop"
    /\ iter[p].idx <= Len(iter[p].snap)

(***************************************************************************)
(* C18, as claimed  When the consumer of a pass over a non-empty list has  *)
(* stopped receiving before it saw the end of the stream, the producer     *)
(* never gets past its handoffs (it neither closes the channel nor         *)
(* releases the lock) and no Append gets the lock.                         *)
(***************************************************************************)
C18_AbandonedAlwaysBlocks ==
    \A p \in Passes :
        (iter[p].cons = "abandoned" /\ iter[p].atLock # <<>>) =>
            /\ iter[p].pc \notin {"closed", "done"}
            /\ \A u \in Users : ~Appending(u)

C18_Step ==
    \A p \in Passes :
        AbandonedBlocked(p) =>
            /\ HoldsLock(csReaders, csWriter, p)
            /\ HoldsLock(csReaders', csWriter', p)
            /\ iter'[p] = iter[p]
            /\ items' = items
            /\ \A u \in Users :
                   /\ ucall[u].op = "Append" => (AppendWaiting(u) /\ ucall'[u] = ucall[u])
                   /\ ucall'[u].op = "Append" => upc'[u] \in {"lock", "lockwait"}

(***************************************************************************)
(* C18, amended  When the consumer of a pass has stopped receiving while   *)
(* the producer holds the lock and has a further item to hand off, the     *)
(* producer stays at that handoff for ever, holding the lock: the pass and *)
(* the list never change again, and every Append, pending or called from   *)
(* then on, waits for the lock for ever.                                   *)
(***************************************************************************)
C18_AbandonedWithItemLeftBlocks == [][C18_Step]_vars

\* the consumer left its loop with an item still to come and then called
\* Append, which waits for the lock
C18_Witness ==
    \E p \in Passes :
        /\ AbandonedBlocked(p)
        /\ AppendWaiting(iter[p].owner)
        /\ Len(items) >= 1

\* the consumer of pass p is inside an Append it called from its loop
ConsumerAppends(p) ==
    /\ iter[p].cons = "ranging"
    /\ ucall[iter[p].owner].op = "Append"

C19_Step ==
    \A p \in Passes :
        (/\ ConsumerAppends(p)
         /\ iter[p].pc = "loop"
         /\ iter[p].idx <= Len(iter[p].snap)) =>
            /\ AppendWaiting(iter[p].owner)
            /\ HoldsLock(csReaders, csWriter, p)
            /\ iter'[p] = iter[p]
            /\ items' = items
            /\ ucall'[iter[p].owner] = ucall[iter[p].owner]
            /\ upc'[iter[p].owner] \in {"lock", "lockwait"}

====
